---- MODULE Spec2Model ----
(***************************************************************************)
(* Model of the missions plugin (src/src/plugins/missions.rs): the offset  *)
(* transformer, the composition queries, Mission::merge_composition and    *)
(* MissionPlugin::build.                                                    *)
(*                                                                         *)
(* Conventions                                                              *)
(*   Option<T>    None is <<>>, Some(x) is <<x>>.                           *)
(*   Vec<T>       a sequence; Rust index i is TLA+ index i + 1.             *)
(*   f32          small integers (exactly representable, so f32 addition    *)
(*                on them is integer addition).                             *)
(*   panic        a result record with panicked = TRUE.                     *)
(***************************************************************************)
EXTENDS Integers, Sequences, FiniteSets, TLC

VARIABLES
    \* offset_classes called on its own
    entries,        \* the EntryList argument
    delta,          \* the composition_offset argument
    offset_result,  \* what the call produced
    offset_pc,      \* "idle" | "called" | "off"
    \* Mission::merge_composition called on its own
    sqm,            \* the Mission's tree (Mission.sqm, the root class)
    compositions,   \* the compositions to merge, in order
    merged,         \* one record per merge_composition call made
    \* MissionPlugin::build
    pc,               \* where build is, or "Failed" (returned Err), "Panicked", "Done"
    build_config,     \* the BuildContext argument
    composition_dir,  \* what Composition::from_path finds at the settings' path
    scaffold,         \* the tree the mission.sqm template renders and parses to
    mission_settings, \* Option<MissionSettings>
    composition,      \* Option<Composition>
    missions,         \* Vec<Mission>
    new_results,      \* per map: whether Mission::new succeeded
    merge_results,    \* per mission: what merge_composition returned
    sqm_results,      \* per mission: whether to_sqm succeeded
    classes,          \* Vec<(PathBuf, Mission)>
    addon_files,      \* the add_file calls made on addon_manager, in order
    stages,           \* the steps of build that completed, in order
    failed_at         \* the step that made build return Err, "" if none

offset_vars == <<entries, delta, offset_result, offset_pc>>
merge_vars == <<sqm, compositions, merged>>
build_vars == <<pc, build_config, composition_dir, scaffold, mission_settings,
                composition, missions, new_results, merge_results, sqm_results,
                classes, addon_files, stages, failed_at>>
vars == <<offset_vars, merge_vars, build_vars>>

----------------------------------------------------------------------------
(* armake2::config data model, as the plugin uses it (line 6).             *)

None == <<>>
Some(x) == <<x>>
IsSome(o) == Len(o) = 1
Unwrap(o) == o[1]

FloatElement(x) == [tag |-> "FloatElement", f |-> x]
IntElement(x) == [tag |-> "IntElement", i |-> x]
StringElement(x) == [tag |-> "StringElement", s |-> x]
ArrayElement(x) == [tag |-> "ArrayElement", elements |-> x]

StringEntry(x) == [tag |-> "StringEntry", s |-> x]
FloatEntry(x) == [tag |-> "FloatEntry", f |-> x]
IntEntry(x) == [tag |-> "IntEntry", i |-> x]
ArrayEntry(x) == [tag |-> "ArrayEntry", elements |-> x]
ClassEntry(c) == [tag |-> "ClassEntry", class |-> c]

ConfigClass(p, ext, del, ents) ==
    [parent |-> p, is_external |-> ext, is_deletion |-> del, entries |-> ents]

\* A class with a body and no parent, `class Name { ... };`
Body(ents) == ConfigClass("", FALSE, FALSE, Some(ents))

POSITION_INFO == "PositionInfo"

----------------------------------------------------------------------------
(* Results of calls that may panic.                                         *)

Returned(v) == [panicked |-> FALSE, value |-> v]
Panicked == [panicked |-> TRUE, value |-> <<>>]

----------------------------------------------------------------------------
(* The offset transformer.                                                  *)

add_to_element(element, increment) ==
    IF element.tag = "FloatElement"
    THEN FloatElement(element.f + increment)
    ELSE element

\* Lines 230-235: elements.iter_mut().enumerate().map(|(idx, el)|
\* add_to_element(el.clone(), offsets[idx])).collect(). offsets has three
\* elements and offsets[idx] is a checked index: it panics past the end.
offset_position(elements, offsets) ==
    IF \E idx \in DOMAIN elements : idx \notin DOMAIN offsets
    THEN Panicked
    ELSE Returned([idx \in DOMAIN elements |->
                      add_to_element(elements[idx], offsets[idx])])

\* The index of the first entry called `name`, 0 when there is none
\* (iter_mut().find(|(name, _)| name == ...)).
find(ents, name) ==
    IF \E k \in DOMAIN ents : ents[k][1] = name
    THEN CHOOSE k \in DOMAIN ents :
            /\ ents[k][1] = name
            /\ \A j \in 1..(k - 1) : ents[j][1] /= name
    ELSE 0

\* offset_position_info returning what find(..).map(..) yields instead of
\* the entry list: the entries other than `position` are lost.
offset_position_info_drop(ents, offsets) ==
    LET k == find(ents, "position")
    IN  IF k = 0 THEN Returned(<<>>)
        ELSE IF ents[k][2].tag = "ArrayEntry"
        THEN LET r == offset_position(ents[k][2].elements, offsets)
             IN  IF r.panicked THEN Panicked
                 ELSE Returned(<<<<"position", ArrayEntry(r.value)>>>>)
        ELSE Returned(<<ents[k]>>)

\* Lines 226-245, the closure given to class.entries.map for a class named
\* PositionInfo: the first `position` entry, when it is an array, gets its
\* elements offset in place; the entry list itself is returned.
offset_position_info(ents, offsets) ==
    LET k == find(ents, "position")
    IN  IF k = 0 THEN Returned(ents)
        ELSE IF ents[k][2].tag = "ArrayEntry"
        THEN LET r == offset_position(ents[k][2].elements, offsets)
             IN  IF r.panicked THEN Panicked
                 ELSE Returned([ents EXCEPT ![k] =
                                  <<ents[k][1], ArrayEntry(r.value)>>])
        ELSE Returned(ents)

RECURSIVE offset_classes(_, _)
offset_classes(ents, composition_offset) ==
    LET offsets == <<composition_offset[1], composition_offset[2],
                     composition_offset[3]>>
        \* Option::map over class.entries
        map_entries(class, r) ==
            IF r.panicked THEN Panicked
            ELSE Returned(ClassEntry([class EXCEPT !.entries = Some(r.value)]))
        one(name, entry) ==
            IF entry.tag = "ClassEntry"
            THEN IF ~IsSome(entry.class.entries)
                 THEN Returned(entry)
                 ELSE IF name = POSITION_INFO
                 THEN map_entries(entry.class,
                        offset_position_info(Unwrap(entry.class.entries), offsets))
                 ELSE map_entries(entry.class,
                        offset_classes(Unwrap(entry.class.entries),
                                       composition_offset))
            ELSE Returned(entry)
        mapped == [k \in DOMAIN ents |-> one(ents[k][1], ents[k][2])]
    IN  IF \E k \in DOMAIN ents : mapped[k].panicked
        THEN Panicked
        ELSE Returned([k \in DOMAIN ents |-> <<ents[k][1], mapped[k].value>>])

----------------------------------------------------------------------------
(* Composition (lines 138-205).                                             *)

Ok(v) == [kind |-> "Ok", value |-> v]
Err == [kind |-> "Err", value |-> <<>>]
Panic == [kind |-> "Panic", value |-> <<>>]

\* entries.into_iter().collect::<HashMap<String, ConfigEntry>>(): one value
\* per name, the last one inserted.
HashMap(ents) ==
    [name \in { ents[k][1] : k \in DOMAIN ents } |->
        LET last == CHOOSE k \in DOMAIN ents :
                        /\ ents[k][1] = name
                        /\ \A j \in DOMAIN ents : ents[j][1] = name => j <= k
        IN  ents[last][2]]

\* HashMap::into_iter().collect::<Vec<_>>(): the pairs of the map in the
\* order the hasher gives them, which is any order.
HashMapIntoIter(map) ==
    LET n == Cardinality(DOMAIN map)
        orders == { f \in [1..n -> DOMAIN map] :
                      \A a, b \in 1..n : a /= b => f[a] /= f[b] }
    IN  { [k \in 1..n |-> <<f[k], map[f[k]]>>] : f \in orders }

IsFloat3(elements) ==
    /\ Len(elements) = 3
    /\ \A k \in 1..3 : elements[k].tag = "FloatElement"

get_center(self) ==
    LET config == self.composition
        map == HashMap(Unwrap(config.entries))
    IN  IF /\ IsSome(config.entries)
           /\ "center" \in DOMAIN map
           /\ map["center"].tag = "ArrayEntry"
           /\ IsFloat3(map["center"].elements)
        THEN LET array == map["center"].elements
             IN  Ok(<<array[1].f, array[2].f, array[3].f>>)
        ELSE Err

get_offset(self) ==
    LET center == get_center(self)
    IN  IF center.kind = "Err" THEN Err
        ELSE Ok(<<center.value[1] + self.offset[1],
                  center.value[2] + self.offset[2],
                  center.value[3] + self.offset[3]>>)

get_offseted_items(self) ==
    LET config == self.composition
        map == HashMap(Unwrap(config.entries))
    IN  IF /\ IsSome(config.entries)
           /\ "items" \in DOMAIN map
           /\ map["items"].tag = "ClassEntry"
           /\ IsSome(map["items"].class.entries)
        THEN LET offset == get_offset(self)
                 r == offset_classes(Unwrap(map["items"].class.entries),
                                     offset.value)
             IN  IF offset.kind = "Err" THEN Err
                 ELSE IF r.panicked THEN Panic
                 ELSE Ok(r.value)
        ELSE Err

----------------------------------------------------------------------------
(* Mission::merge_composition (lines 356-390).                              *)

\* One sequence for every way of taking one element from each set.
RECURSIVE Choices(_)
Choices(sets) ==
    IF Len(sets) = 0 THEN {<<>>}
    ELSE { <<h>> \o t : h \in Head(sets), t \in Choices(Tail(sets)) }

Entities(items) == ClassEntry(ConfigClass("Mission", FALSE, FALSE, Some(items)))

\* Lines 367-379, the closure given to mission.entries.map: every entry
\* list the Mission class may be left with.
merge_mission_entries(ents, items) ==
    LET map == HashMap(ents)
        inserted == [name \in DOMAIN map \cup {"Entities"} |->
                        IF name = "Entities" THEN Entities(items)
                        ELSE map[name]]
    IN  HashMapIntoIter(inserted)

\* Lines 364-386, the closure mapped over the top-level entries: every
\* (name, config) pair the entry may become.
merge_entry(name, config, items) ==
    IF name = "Mission" /\ config.tag = "ClassEntry"
    THEN IF IsSome(config.class.entries)
         THEN { <<name, ClassEntry([config.class EXCEPT !.entries = Some(e)])>> :
                  e \in merge_mission_entries(Unwrap(config.class.entries), items) }
         ELSE { <<name, config>> }
    ELSE { <<name, config>> }

\* merge_composition taking the entries out of the tree before the items
\* are known to load: an Err leaves the tree emptied.
merge_composition_partial(self_sqm, comp) ==
    LET items == get_offseted_items(comp)
        wiped == IF IsSome(self_sqm.entries)
                 THEN [self_sqm EXCEPT !.entries = Some(<<>>)]
                 ELSE self_sqm
    IN  IF items.kind = "Err" THEN { [result |-> "Err", sqm |-> wiped] }
        ELSE IF items.kind = "Panic" THEN { [result |-> "Panic", sqm |-> self_sqm] }
        ELSE IF ~IsSome(self_sqm.entries)
        THEN { [result |-> "Ok", sqm |-> self_sqm] }
        ELSE LET ents == Unwrap(self_sqm.entries)
                 each == [k \in DOMAIN ents |->
                            merge_entry(ents[k][1], ents[k][2], items.value)]
             IN  { [result |-> "Ok",
                    sqm |-> [self_sqm EXCEPT !.entries = Some(c)]] :
                   c \in Choices(each) }

\* Every outcome of self.merge_composition(&comp) on a Mission whose
\* tree is self_sqm: the Result (or a panic) and the tree it leaves.
merge_composition(self_sqm, comp) ==
    LET items == get_offseted_items(comp)
    IN  IF items.kind = "Err" THEN { [result |-> "Err", sqm |-> self_sqm] }
        ELSE IF items.kind = "Panic" THEN { [result |-> "Panic", sqm |-> self_sqm] }
        ELSE IF ~IsSome(self_sqm.entries)
        THEN { [result |-> "Ok", sqm |-> self_sqm] }
        ELSE LET ents == Unwrap(self_sqm.entries)
                 each == [k \in DOMAIN ents |->
                            merge_entry(ents[k][1], ents[k][2], items.value)]
             IN  { [result |-> "Ok",
                    sqm |-> [self_sqm EXCEPT !.entries = Some(c)]] :
                   c \in Choices(each) }

----------------------------------------------------------------------------
(* Strings and paths. A string is a sequence of characters; a run of         *)
(* characters that holds no separator and no dot may be written as one      *)
(* element ("missions").                                                     *)

RECURSIVE Split(_, _)
\* The pieces of str between occurrences of sep, empty pieces included.
Split(str, sep) ==
    IF \A k \in DOMAIN str : str[k] /= sep THEN <<str>>
    ELSE LET k == CHOOSE j \in DOMAIN str :
                      /\ str[j] = sep
                      /\ \A h \in 1..(j - 1) : str[h] /= sep
         IN  <<SubSeq(str, 1, k - 1)>> \o Split(SubSeq(str, k + 1, Len(str)), sep)

\* std::path::Path::components of a relative path: repeated separators and
\* `.` components are dropped.
Components(path) ==
    LET Kept(c) == c /= <<>> /\ c /= <<".">>
    IN  SelectSeq(Split(path, "/"), Kept)

RECURSIVE Join(_)
Join(components) ==
    IF Len(components) = 0 THEN <<>>
    ELSE IF Len(components) = 1 THEN components[1]
    ELSE components[1] \o <<"/">> \o Join(Tail(components))

\* Path::parent: the path without its last component.
path_parent(path) ==
    LET c == Components(path)
    IN  IF Len(c) = 0 THEN None
        ELSE Some(Join(SubSeq(c, 1, Len(c) - 1)))

\* Path::file_name: the last component, unless it is `..`.
path_file_name(path) ==
    LET c == Components(path)
    IN  IF Len(c) = 0 \/ c[Len(c)] = <<".", ".">> THEN None
        ELSE Some(c[Len(c)])

----------------------------------------------------------------------------
(* MissionSettings (lines 85-132).                                          *)

MISSION_SETTINGS_KEY == "missions"

default_addon_name == <<"Missions">>
default_mission_name == <<"ZeusMission">>

\* The derived Deserialize: maps and composition are required, addon_name
\* and mission_name have defaults, composition_offset defaults to zeros.
try_into(value) ==
    IF IsSome(value.maps) /\ IsSome(value.composition)
    THEN Ok([addon_name |-> IF IsSome(value.addon_name)
                            THEN Unwrap(value.addon_name)
                            ELSE default_addon_name,
             maps |-> Unwrap(value.maps),
             mission_name |-> IF IsSome(value.mission_name)
                              THEN Unwrap(value.mission_name)
                              ELSE default_mission_name,
             composition |-> Unwrap(value.composition),
             composition_offset |-> IF IsSome(value.composition_offset)
                                    THEN Unwrap(value.composition_offset)
                                    ELSE <<0, 0, 0>>])
    ELSE Err

from_build_config(context) ==
    IF MISSION_SETTINGS_KEY \in DOMAIN context.extra
    THEN try_into(context.extra[MISSION_SETTINGS_KEY])
    ELSE Err

\* Lines 146-160 and 277-283: dir is what the two files at the path hold,
\* None when one of them cannot be opened or parsed.
load_composition(dir, composition_offset) ==
    IF IsSome(dir)
    THEN Ok([header |-> Unwrap(dir).header,
             composition |-> Unwrap(dir).composition,
             offset |-> composition_offset])
    ELSE Err

----------------------------------------------------------------------------
(* Mission (lines 307-408).                                                 *)

\* rendered: the tree the scaffold rendered and parsed to, None when
\* create_handlebars, render or Config::read failed.
Mission_new(prefix, name, map_name, rendered) ==
    IF IsSome(rendered)
    THEN Ok([map_name |-> map_name, mission_name |-> name, prefix |-> prefix,
             sqm |-> Unwrap(rendered)])
    ELSE Err

class_name(self) ==
    self.prefix \o <<"_">> \o self.map_name \o self.mission_name

mission_name(self) ==
    class_name(self) \o <<".">> \o self.map_name

\* written: whether Config::write and from_utf8 succeed on this tree. The
\* text is kept as the tree it is the text of.
to_sqm(self, written) ==
    IF written THEN Ok([text_of |-> self.sqm]) ELSE Err

RECURSIVE FilterOk(_)
\* filter_map(|r| r.ok()): the values of the Ok results, in order.
FilterOk(results) ==
    IF Len(results) = 0 THEN <<>>
    ELSE (IF Head(results).kind = "Ok" THEN <<Head(results).value>> ELSE <<>>)
         \o FilterOk(Tail(results))

\* create_missions collecting into Result<Vec<_>>: the first Err is returned.
create_missions_first_error(settings, context, rendered) ==
    LET results == [k \in DOMAIN settings.maps |->
                      Mission_new(context.prefix, settings.mission_name,
                                  settings.maps[k], rendered[k])]
    IN  IF \E k \in DOMAIN results : results[k].kind = "Err"
        THEN Err
        ELSE Ok(FilterOk(results))

\* rendered[k]: what the scaffold of the k-th map rendered and parsed to.
create_missions(settings, context, rendered) ==
    LET results == [k \in DOMAIN settings.maps |->
                      Mission_new(context.prefix, settings.mission_name,
                                  settings.maps[k], rendered[k])]
    IN  Ok(FilterOk(results))

----------------------------------------------------------------------------
(* Addon (lines 410-457).                                                   *)

from_parts(prefix, addon_name, parts) ==
    LET file_name(directory) ==
            IF IsSome(path_parent(directory))
            THEN path_file_name(Unwrap(path_parent(directory)))
            ELSE None
        MissionClass_(directory, mission) ==
            [class_name |-> class_name(mission),
             briefing_name |-> <<"[">> \o prefix \o <<"]", " ">> \o class_name(mission),
             directory |-> prefix \o <<"\\">> \o addon_name \o <<"\\", "missions", "\\">>
                           \o Unwrap(file_name(directory))]
    IN  IF \E k \in DOMAIN parts : ~IsSome(file_name(parts[k][1]))
        THEN Panicked
        ELSE Returned([prefix |-> prefix, addon_name |-> addon_name,
                       missions |-> [k \in DOMAIN parts |->
                                       MissionClass_(parts[k][1], parts[k][2])]])

----------------------------------------------------------------------------
(* The parts of the state a specification leaves out.                       *)

MergeOff ==
    /\ sqm = ConfigClass("", FALSE, FALSE, None)
    /\ compositions = <<>>
    /\ merged = <<>>

BuildOff ==
    /\ pc = "off"
    /\ build_config = [prefix |-> <<>>]
    /\ composition_dir = None
    /\ scaffold = ConfigClass("", FALSE, FALSE, None)
    /\ mission_settings = None
    /\ composition = None
    /\ missions = <<>>
    /\ new_results = <<>>
    /\ merge_results = <<>>
    /\ sqm_results = <<>>
    /\ classes = <<>>
    /\ addon_files = <<>>
    /\ stages = <<>>
    /\ failed_at = ""

OffsetOff ==
    /\ entries = <<>>
    /\ delta = <<0, 0, 0>>
    /\ offset_result = Returned(<<>>)
    /\ offset_pc = "off"

----------------------------------------------------------------------------
(* Inputs of the offset transformer.                                        *)

MaxPosLen == 4
MaxDepth == 2

Elements ==
    { FloatElement(1), IntElement(1), StringElement("s"),
      ArrayElement(<<FloatElement(1)>>) }

PositionArrays == UNION { [1..n -> Elements] : n \in 0..MaxPosLen }

Deltas == { <<105, 195, 0>>, <<1, 2, 3>> }

\* The bodies a PositionInfo class is given.
PositionInfoClasses ==
    { Body(<<<<"position", ArrayEntry(a)>>>>) : a \in PositionArrays }
    \cup { ConfigClass("Base", TRUE, FALSE,
             Some(<<<<"angles", ArrayEntry(<<FloatElement(0)>>)>>,
                    <<"position", ArrayEntry(a)>>>>)) :
           a \in { b \in PositionArrays : Len(b) = 3 } }
    \cup { Body(<<>>),
           Body(<<<<"angles", ArrayEntry(<<FloatElement(0)>>)>>>>),
           Body(<<<<"position", FloatEntry(1)>>>>),
           ConfigClass("", TRUE, FALSE, None) }

RECURSIVE Nest(_, _)
Nest(d, ents) ==
    IF d = 0 THEN ents
    ELSE <<<<"dataType", StringEntry("Object")>>,
           <<"Item0", ClassEntry(ConfigClass("Layer", FALSE, d = 2,
                                             Some(Nest(d - 1, ents))))>>,
           <<"id", IntEntry(d)>>>>

EntryLists ==
    { Nest(d, <<<<POSITION_INFO, ClassEntry(c)>>>>) :
        d \in 0..MaxDepth, c \in PositionInfoClasses }
    \cup { <<<<"Other", ClassEntry(Body(<<<<"position",
                 ArrayEntry(<<FloatElement(1), FloatElement(1), FloatElement(1)>>)>>>>))>>,
             <<"position", ArrayEntry(<<FloatElement(1)>>)>>>>,
           <<>> }

----------------------------------------------------------------------------
(* offset_classes called on its own.                                        *)

OffsetInit ==
    /\ MergeOff
    /\ BuildOff
    /\ entries \in EntryLists
    /\ delta \in Deltas
    /\ offset_result = Returned(<<>>)
    /\ offset_pc = "idle"

CallOffsetClasses ==
    /\ offset_pc = "idle"
    /\ offset_result' = offset_classes(entries, delta)
    /\ offset_pc' = "called"
    /\ UNCHANGED <<entries, delta, merge_vars, build_vars>>

OffsetNext == CallOffsetClasses

SpecOffset == OffsetInit /\ [][OffsetNext]_vars
----------------------------------------------------------------------------
(* Properties of the offset transformer.                                    *)

IsNumeric(e) == e.tag \in {"FloatElement", "IntElement"}
Num(e) == IF e.tag = "FloatElement" THEN e.f ELSE e.i

\* C6: offset_classes has no failure path: whatever the number of elements
\* of a PositionInfo class's position array, the call returns an entry list
\* and never indexes out of bounds.
OffsetNeverPanics ==
    offset_pc = "called" => ~offset_result.panicked

\* in and out are entry lists of the same shape; every PositionInfo class
\* reached has each numeric element i of its position array increased by
\* component i of d, and its other elements unchanged.
RECURSIVE PositionsOffset(_, _, _)
PositionsOffset(in, out, d) ==
    \A k \in DOMAIN in :
        LET name == in[k][1]
            e == in[k][2]
            o == out[k][2]
        IN  (e.tag = "ClassEntry" /\ IsSome(e.class.entries)) =>
              LET sub == Unwrap(e.class.entries)
                  res == Unwrap(o.class.entries)
                  p == find(sub, "position")
              IN  IF name = POSITION_INFO
                  THEN (p /= 0 /\ sub[p][2].tag = "ArrayEntry") =>
                         \A idx \in DOMAIN sub[p][2].elements \cap 1..3 :
                            LET a == sub[p][2].elements[idx]
                                b == res[p][2].elements[idx]
                            IN  IF IsNumeric(a)
                                THEN IsNumeric(b) /\ Num(b) = Num(a) + d[idx]
                                ELSE b = a
                  ELSE PositionsOffset(sub, res, d)

\* C7: in every PositionInfo class reached, each numeric element (Float or
\* Int) at index 0..2 of the position array is replaced by its value plus
\* the matching component of delta, and non-numeric elements are unchanged.
NumericPositionsOffset ==
    (offset_pc = "called" /\ ~offset_result.panicked) =>
        PositionsOffset(entries, offset_result.value, delta)

\* out has the shape of in at every depth. inPI: the lists are the entries
\* of a class named PositionInfo.
RECURSIVE SameShape(_, _, _)
SameShape(in, out, inPI) ==
    /\ Len(out) = Len(in)
    /\ \A k \in DOMAIN in :
        LET name == in[k][1]
            e == in[k][2]
            o == out[k][2]
        IN  /\ out[k][1] = name
            /\ o.tag = e.tag
            /\ IF e.tag = "ClassEntry"
               THEN /\ o.class.parent = e.class.parent
                    /\ o.class.is_external = e.class.is_external
                    /\ o.class.is_deletion = e.class.is_deletion
                    /\ IsSome(o.class.entries) = IsSome(e.class.entries)
                    /\ IsSome(e.class.entries) =>
                         SameShape(Unwrap(e.class.entries),
                                   Unwrap(o.class.entries),
                                   name = POSITION_INFO)
                    /\ (/\ name = POSITION_INFO
                        /\ IsSome(e.class.entries)
                        /\ find(Unwrap(e.class.entries), "position") = 0)
                       => o = e
               ELSE IF inPI /\ name = "position" /\ e.tag = "ArrayEntry"
               THEN Len(o.elements) = Len(e.elements)
               ELSE o = e

\* C8: the entry list offset_classes returns has the shape of its argument
\* at every depth: same lengths, names and order, same parent and flags on
\* every class, every non-class entry identical except the elements of a
\* position array directly inside a class named PositionInfo; a PositionInfo
\* class without a position child is returned unchanged.
OffsetKeepsShape ==
    (offset_pc = "called" /\ ~offset_result.panicked) =>
        SameShape(entries, offset_result.value, FALSE)

\* A nested PositionInfo class had its position offset.
OffsetKeepsShapeWitness ==
    /\ offset_pc = "called"
    /\ ~offset_result.panicked
    /\ Len(entries) = 3
    /\ offset_result.value /= entries
----------------------------------------------------------------------------
(* Inputs of merge_composition.                                             *)

MaxMerges == 2

F3(x, y, z) == <<FloatElement(x), FloatElement(y), FloatElement(z)>>

Item(name, pos) ==
    <<name, ClassEntry(Body(<<<<"dataType", StringEntry("Object")>>,
                              <<POSITION_INFO,
                                ClassEntry(Body(<<<<"position", ArrayEntry(pos)>>>>))>>>>))>>

Composition(body, off) ==
    [header |-> Body(<<>>), composition |-> body, offset |-> off]

Center == <<"center", ArrayEntry(F3(100, 200, 0))>>
ItemsA == <<"items", ClassEntry(Body(<<<<"items", IntEntry(1)>>,
                                       Item("Item0", F3(1, 1, 1))>>))>>
ItemsB == <<"items", ClassEntry(Body(<<<<"items", IntEntry(2)>>,
                                       Item("Item0", F3(7, 8, 9)),
                                       Item("Item1", F3(0, 0, 0))>>))>>

CompositionA == Composition(Body(<<Center, ItemsA>>), <<5, -5, 0>>)
CompositionB == Composition(Body(<<<<"version", IntEntry(54)>>, ItemsB, Center>>),
                            <<0, 0, 0>>)

GoodCompositions ==
    { CompositionA, CompositionB,
      \* duplicate names: the last `items` and the last `center` are used
      Composition(Body(<<ItemsB, Center, ItemsA,
                         <<"center", ArrayEntry(F3(0, 0, 0))>>>>), <<1, 1, 1>>) }

FailingCompositions ==
    { Composition(Body(<<Center>>), <<5, -5, 0>>),
      Composition(Body(<<Center, <<"items", IntEntry(1)>>>>), <<5, -5, 0>>),
      Composition(Body(<<Center,
        <<"items", ClassEntry(ConfigClass("", TRUE, FALSE, None))>>>>), <<5, -5, 0>>),
      Composition(Body(<<ItemsA>>), <<5, -5, 0>>),
      Composition(Body(<<ItemsA, <<"center", ArrayEntry(
        <<IntElement(100), IntElement(200), IntElement(0)>>)>>>>), <<5, -5, 0>>),
      Composition(Body(<<ItemsA, <<"center", ArrayEntry(
        <<FloatElement(100), FloatElement(200)>>)>>>>), <<5, -5, 0>>),
      Composition(ConfigClass("", FALSE, FALSE, None), <<5, -5, 0>>) }

PanickingCompositions ==
    { Composition(Body(<<Center,
        <<"items", ClassEntry(Body(<<Item("Item0",
            <<FloatElement(1), FloatElement(1), FloatElement(1), FloatElement(1)>>)>>))>>>>),
        <<5, -5, 0>>) }

Compositions == GoodCompositions \cup FailingCompositions \cup PanickingCompositions

Intel == <<"Intel", ClassEntry(Body(<<<<"timeOfChanges", FloatEntry(1800)>>>>))>>
OldEntities == <<"Entities", ClassEntry(Body(<<<<"items", IntEntry(0)>>>>))>>
MissionClass(ents) == <<"Mission", ClassEntry(Body(ents))>>
Version == <<"version", IntEntry(53)>>
Tail_ == <<"binarizationWanted", IntEntry(0)>>

MissionTrees ==
    { Body(<<Version, MissionClass(<<Intel, <<"randomSeed", IntEntry(7)>>>>), Tail_>>),
      Body(<<Version, MissionClass(<<Intel, OldEntities>>), Tail_>>),
      Body(<<Version, MissionClass(<<>>)>>),
      \* `class Mission;`: a class without a body
      Body(<<Version, <<"Mission", ClassEntry(ConfigClass("", TRUE, FALSE, None))>>, Tail_>>),
      Body(<<Version, Tail_>>),
      Body(<<Version, <<"Mission", IntEntry(1)>>>>),
      ConfigClass("", FALSE, FALSE, None),
      \* duplicate names inside the Mission class
      Body(<<MissionClass(<<<<"addOns", IntEntry(1)>>, <<"addOns", IntEntry(2)>>>>)>>),
      Body(<<MissionClass(<<OldEntities, Intel, OldEntities>>)>>),
      \* two top-level Mission classes
      Body(<<MissionClass(<<Intel>>), Version, MissionClass(<<>>)>>) }

----------------------------------------------------------------------------
(* merge_composition called on its own, MaxMerges times on one Mission.     *)

MergeInit ==
    /\ OffsetOff
    /\ BuildOff
    /\ sqm \in MissionTrees
    /\ compositions \in [1..MaxMerges -> Compositions]
    /\ merged = <<>>

MergeComposition ==
    /\ Len(merged) < Len(compositions)
    /\ (Len(merged) > 0 => merged[Len(merged)].result /= "Panic")
    /\ LET comp == compositions[Len(merged) + 1]
       IN  \E out \in merge_composition(sqm, comp) :
             /\ sqm' = out.sqm
             /\ merged' = Append(merged,
                    [composition |-> comp, result |-> out.result,
                     before |-> sqm, after |-> out.sqm])
    /\ UNCHANGED <<compositions, offset_vars, build_vars>>

MergeNext == MergeComposition

SpecMerge == MergeInit /\ [][MergeNext]_vars
----------------------------------------------------------------------------
(* Properties of merge_composition.                                         *)

TopEntries(tree) == IF IsSome(tree.entries) THEN Unwrap(tree.entries) ELSE <<>>

\* The top-level class entries named Mission.
MissionClasses(tree) ==
    { k \in DOMAIN TopEntries(tree) :
        /\ TopEntries(tree)[k][1] = "Mission"
        /\ TopEntries(tree)[k][2].tag = "ClassEntry" }

Children(tree, k) ==
    LET c == TopEntries(tree)[k][2]
    IN  IF c.tag = "ClassEntry" /\ IsSome(c.class.entries)
        THEN Unwrap(c.class.entries)
        ELSE <<>>

Named(ents, name) == { j \in DOMAIN ents : ents[j][1] = name }

NotEntities(ents) ==
    LET Other(e) == e[1] /= "Entities"
    IN  SelectSeq(ents, Other)

\* C3: after two successful merges on one Mission, with A and then with B,
\* the Mission class has a single Entities child, whose entries are B's
\* offset items (not A's, not A's followed by B's).
RemergeReplacesEntities ==
    (/\ Len(merged) >= 2
     /\ merged[Len(merged) - 1].result = "Ok"
     /\ merged[Len(merged)].result = "Ok") =>
        LET b == merged[Len(merged)]
            items == get_offseted_items(b.composition).value
        IN  \A k \in MissionClasses(b.after) :
              LET ents == Children(b.after, k)
              IN  /\ Cardinality(Named(ents, "Entities")) = 1
                  /\ \A j \in Named(ents, "Entities") :
                        ents[j][2] = Entities(items)

\* C4: after a successful merge on a tree with a top-level Mission class,
\* that class has a child named Entities: a class with parent "Mission",
\* flags cleared and the composition's offset items as entries; also when
\* the Mission class had no entries before.
MergeInsertsEntities ==
    \A n \in DOMAIN merged :
        merged[n].result = "Ok" =>
            LET items == get_offseted_items(merged[n].composition).value
            IN  \A k \in MissionClasses(merged[n].before) :
                  LET ents == Children(merged[n].after, k)
                  IN  /\ k \in MissionClasses(merged[n].after)
                      /\ \E j \in DOMAIN ents :
                            ents[j] = <<"Entities", Entities(items)>>

\* C5: a successful merge leaves every top-level entry other than Mission
\* unchanged and in place, and inside the Mission class leaves every child
\* other than Entities present, unchanged and in the same relative order.
MergeKeepsOrder ==
    \A n \in DOMAIN merged :
        merged[n].result = "Ok" =>
            LET before == TopEntries(merged[n].before)
                after == TopEntries(merged[n].after)
            IN  /\ Len(after) = Len(before)
                /\ \A k \in DOMAIN before :
                     IF k \in MissionClasses(merged[n].before)
                     THEN /\ after[k][1] = "Mission"
                          /\ NotEntities(Children(merged[n].after, k))
                               = NotEntities(Children(merged[n].before, k))
                     ELSE after[k] = before[k]
----------------------------------------------------------------------------
(* Inputs of build.                                                         *)

MaxMaps == 3

MapNames == { <<"a">>, <<"a", "/", "b">> }

\* Every list of at most MaxMaps of these names, and one list whose name
\* ends in a `..` component.
MapLists ==
    UNION { [1..n -> MapNames] : n \in 0..MaxMaps }
    \cup { << <<"/", ".", ".">> >> }

\* The table under `missions` in LAAT.toml.
SettingsValue(maps) ==
    [addon_name |-> None, maps |-> maps, mission_name |-> Some(<<"Zeus">>),
     composition |-> Some(<<"compositions", "/", "base">>),
     composition_offset |-> Some(<<5, -5, 0>>)]

BuildContexts ==
    { [prefix |-> <<"P">>, extra |-> [missions |-> SettingsValue(Some(maps))]] :
        maps \in MapLists }
    \cup { [prefix |-> <<"P">>, extra |-> [missions |-> SettingsValue(None)]] }

BuildContextWithoutSettings ==
    [prefix |-> <<"P">>, extra |-> [author |-> <<"me">>]]

CompositionDirs ==
    { None }
    \cup { Some([header |-> c.header, composition |-> c.composition]) :
             c \in { CompositionA, Composition(Body(<<ItemsA>>), <<0, 0, 0>>) }
                   \cup PanickingCompositions }

Scaffolds ==
    { Body(<<Version, MissionClass(<<Intel>>), Tail_>>),
      Body(<<Version, <<"Mission", ClassEntry(ConfigClass("", TRUE, FALSE, None))>>>>),
      Body(<<Version, Tail_>>) }

----------------------------------------------------------------------------
(* MissionPlugin::build (lines 20-78).                                      *)

Init ==
    /\ OffsetOff
    /\ MergeOff
    /\ pc = "Init"
    /\ \/ build_config \in BuildContexts
       \/ build_config = BuildContextWithoutSettings
    /\ composition_dir \in CompositionDirs
    /\ scaffold \in Scaffolds
    /\ mission_settings = None
    /\ composition = None
    /\ missions = <<>>
    /\ new_results = <<>>
    /\ merge_results = <<>>
    /\ sqm_results = <<>>
    /\ classes = <<>>
    /\ addon_files = <<>>
    /\ stages = <<>>
    /\ failed_at = ""

Fail(step) ==
    /\ pc' = "Failed"
    /\ failed_at' = step

\* Line 22
ExtractSettings ==
    /\ pc = "Init"
    /\ LET r == from_build_config(build_config)
       IN  IF r.kind = "Err"
           THEN /\ Fail("settings")
                /\ UNCHANGED <<mission_settings, stages>>
           ELSE /\ mission_settings' = Some(r.value)
                /\ pc' = "SettingsExtracted"
                /\ stages' = Append(stages, "settings")
                /\ UNCHANGED failed_at
    /\ UNCHANGED <<build_config, composition_dir, scaffold, composition, missions,
                   new_results, merge_results, sqm_results, classes, addon_files,
                   offset_vars, merge_vars>>

\* Lines 25-29
LoadComposition ==
    /\ pc = "SettingsExtracted"
    /\ LET r == load_composition(composition_dir,
                                 Unwrap(mission_settings).composition_offset)
       IN  IF r.kind = "Err"
           THEN /\ Fail("composition")
                /\ UNCHANGED <<composition, stages>>
           ELSE /\ composition' = Some(r.value)
                /\ pc' = "CompositionLoaded"
                /\ stages' = Append(stages, "composition")
                /\ UNCHANGED failed_at
    /\ UNCHANGED <<build_config, composition_dir, scaffold, mission_settings,
                   missions, new_results, merge_results, sqm_results, classes,
                   addon_files, offset_vars, merge_vars>>

\* Line 32. Every target renders the same template; each rendering and
\* parsing succeeds or fails on its own.
CreateMissions ==
    /\ pc = "CompositionLoaded"
    /\ \E succeeded \in [DOMAIN Unwrap(mission_settings).maps -> BOOLEAN] :
         LET rendered == [k \in DOMAIN succeeded |->
                            IF succeeded[k] THEN Some(scaffold) ELSE None]
             r == create_missions(Unwrap(mission_settings), build_config, rendered)
         IN  /\ new_results' = succeeded
             /\ IF r.kind = "Err"
                THEN /\ Fail("create_missions")
                     /\ UNCHANGED <<missions, stages>>
                ELSE /\ missions' = r.value
                     /\ pc' = "TargetsGenerated"
                     /\ stages' = Append(stages, "missions")
                     /\ UNCHANGED failed_at
    /\ UNCHANGED <<build_config, composition_dir, scaffold, mission_settings,
                   composition, merge_results, sqm_results, classes, addon_files,
                   offset_vars, merge_vars>>

\* Lines 35-39: an Err is logged and the loop goes on; a panic ends build.
MergeCompositions ==
    /\ pc = "TargetsGenerated"
    /\ \E outs \in Choices([k \in DOMAIN missions |->
                merge_composition(missions[k].sqm, Unwrap(composition))]) :
         IF \E k \in DOMAIN outs : outs[k].result = "Panic"
         THEN /\ pc' = "Panicked"
              /\ UNCHANGED <<missions, merge_results, stages>>
         ELSE /\ missions' = [k \in DOMAIN missions |->
                                [missions[k] EXCEPT !.sqm = outs[k].sqm]]
              /\ merge_results' = [k \in DOMAIN missions |-> outs[k].result]
              /\ pc' = "TargetsMerged"
              /\ stages' = Append(stages, "merge")
    /\ UNCHANGED <<build_config, composition_dir, scaffold, mission_settings,
                   composition, new_results, sqm_results, classes, addon_files,
                   failed_at, offset_vars, merge_vars>>

mission_path(mission) ==
    <<"missions", "/">> \o mission_name(mission) \o <<"/", "mission.sqm">>

\* Lines 42-63
CollectFiles ==
    /\ pc = "TargetsMerged"
    /\ \E written \in [DOMAIN missions -> BOOLEAN] :
         LET sqm_(k) == to_sqm(missions[k], written[k])
             kept == [k \in DOMAIN missions |->
                        IF sqm_(k).kind = "Ok"
                        THEN Ok([path |-> mission_path(missions[k]),
                                 sqm |-> sqm_(k).value,
                                 mission |-> missions[k]])
                        ELSE Err]
             some == FilterOk(kept)
         IN  /\ sqm_results' = written
             /\ addon_files' = addon_files \o
                    [k \in DOMAIN some |->
                       [content |-> some[k].sqm, path |-> some[k].path]]
             /\ classes' = [k \in DOMAIN some |-> <<some[k].path, some[k].mission>>]
    /\ pc' = "FilesCollected"
    /\ stages' = Append(stages, "files")
    /\ UNCHANGED <<build_config, composition_dir, scaffold, mission_settings,
                   composition, missions, new_results, merge_results, failed_at,
                   offset_vars, merge_vars>>

\* WriteConfig without the two `?`: a failed create_handlebars or render
\* still adds config.cpp and goes on to build_addon.
WriteConfigIgnoringErrors ==
    /\ pc = "FilesCollected"
    /\ \E handlebars \in {"ok", "create_handlebars", "render"} :
         LET addon == from_parts(build_config.prefix,
                                 Unwrap(mission_settings).addon_name, classes)
         IN  IF addon.panicked
             THEN /\ pc' = "Panicked"
                  /\ UNCHANGED <<addon_files, stages, failed_at>>
             ELSE /\ addon_files' = Append(addon_files,
                        [content |-> [rendered |-> addon.value],
                         path |-> <<"config.cpp">>])
                  /\ pc' = "ConfigWritten"
                  /\ stages' = Append(stages, "config")
                  /\ failed_at' = IF handlebars = "ok" THEN "" ELSE handlebars
    /\ UNCHANGED <<build_config, composition_dir, scaffold, mission_settings,
                   composition, missions, new_results, merge_results, sqm_results,
                   classes, offset_vars, merge_vars>>

\* Lines 66-72. handlebars: whether create_handlebars and render succeed,
\* or which of them fails.
WriteConfig ==
    /\ pc = "FilesCollected"
    /\ \E handlebars \in {"ok", "create_handlebars", "render"} :
         LET addon == from_parts(build_config.prefix,
                                 Unwrap(mission_settings).addon_name, classes)
         IN  IF handlebars = "create_handlebars"
             THEN /\ Fail(handlebars)
                  /\ UNCHANGED <<addon_files, stages>>
             ELSE IF addon.panicked
             THEN /\ pc' = "Panicked"
                  /\ UNCHANGED <<addon_files, stages, failed_at>>
             ELSE IF handlebars = "render"
             THEN /\ Fail(handlebars)
                  /\ UNCHANGED <<addon_files, stages>>
             ELSE /\ addon_files' = Append(addon_files,
                        [content |-> [rendered |-> addon.value],
                         path |-> <<"config.cpp">>])
                  /\ pc' = "ConfigWritten"
                  /\ stages' = Append(stages, "config")
                  /\ UNCHANGED failed_at
    /\ UNCHANGED <<build_config, composition_dir, scaffold, mission_settings,
                   composition, missions, new_results, merge_results, sqm_results,
                   classes, offset_vars, merge_vars>>

\* Line 75: build_addon is invoked; packaged is whether it succeeds.
BuildAddon ==
    /\ pc = "ConfigWritten"
    /\ stages' = Append(stages, "build_addon")
    /\ \E packaged \in BOOLEAN :
         IF packaged
         THEN pc' = "Done" /\ UNCHANGED failed_at
         ELSE Fail("build_addon")
    /\ UNCHANGED <<build_config, composition_dir, scaffold, mission_settings,
                   composition, missions, new_results, merge_results, sqm_results,
                   classes, addon_files, offset_vars, merge_vars>>

Next ==
    \/ ExtractSettings
    \/ LoadComposition
    \/ CreateMissions
    \/ MergeCompositions
    \/ CollectFiles
    \/ WriteConfig
    \/ BuildAddon

Spec == Init /\ [][Next]_vars
----------------------------------------------------------------------------
(* Properties of build.                                                     *)

Completed(stage) == \E k \in DOMAIN stages : stages[k] = stage

RECURSIVE Picked(_, _)
\* The elements of seq whose flag is TRUE, in order.
Picked(seq, flags) ==
    IF Len(seq) = 0 THEN <<>>
    ELSE (IF Head(flags) THEN <<Head(seq)>> ELSE <<>>)
         \o Picked(Tail(seq), Tail(flags))

\* C1: whatever targets fail to generate, create_missions does not make
\* build return: it yields one Mission per target whose Mission::new
\* succeeded, in the order of the maps list.
CreateMissionsKeepsSucceeding ==
    /\ failed_at /= "create_missions"
    /\ Len(new_results) > 0 => Completed("missions")
    /\ Completed("missions") =>
         LET settings == Unwrap(mission_settings)
         IN  /\ [k \in DOMAIN missions |-> missions[k].map_name]
                  = Picked(settings.maps, new_results)
             /\ \A k \in DOMAIN missions :
                  /\ missions[k].prefix = build_config.prefix
                  /\ missions[k].mission_name = settings.mission_name

\* Three targets, the second failing: the first and the third survive.
CreateMissionsWitness ==
    /\ pc = "TargetsGenerated"
    /\ new_results = <<TRUE, FALSE, TRUE>>
    /\ Len(missions) = 2
    /\ missions[1].map_name = <<"a">>
    /\ missions[2].map_name = <<"a", "/", "b">>

\* C2: when the settings key is absent, the composition does not load or
\* the manifest does not render, build returns an error and build_addon is
\* never invoked; build_addon is invoked at most once, and only after
\* settings extraction, composition load, file collection and the manifest
\* hand-off.
BuildAddonOnlyAfterPrerequisites ==
    LET invoked == { k \in DOMAIN stages : stages[k] = "build_addon" }
    IN  /\ Cardinality(invoked) <= 1
        /\ invoked /= {} =>
             /\ stages = <<"settings", "composition", "missions", "merge",
                           "files", "config", "build_addon">>
             /\ IsSome(mission_settings)
             /\ IsSome(composition)
             /\ Len(sqm_results) = Len(missions)
             /\ addon_files[Len(addon_files)].path = <<"config.cpp">>
        /\ (pc /= "Init" /\ MISSION_SETTINGS_KEY \notin DOMAIN build_config.extra) =>
             pc = "Failed" /\ invoked = {}
        /\ (pc \notin {"Init", "SettingsExtracted"} /\ composition_dir = None) =>
             pc = "Failed" /\ invoked = {}
        /\ failed_at \in {"settings", "composition", "create_handlebars", "render"} =>
             pc = "Failed" /\ invoked = {}

\* The manifest did not render after mission files were collected.
BuildAbortWitness ==
    /\ pc = "Failed"
    /\ failed_at = "render"
    /\ Len(addon_files) = 2

\* C9: a merge_composition that fails is not propagated and leaves the
\* Mission's tree as generated; the target is still serialized and handed
\* to the addon manager with that tree; a tree without a top-level Mission
\* class is left unchanged by a merge that reports success.
MergeFailureKeepsTree ==
    /\ failed_at /= "merge"
    /\ \A k \in DOMAIN merge_results :
         /\ merge_results[k] = "Err" => missions[k].sqm = scaffold
         /\ merge_results[k] = "Err"
              <=> get_offseted_items(Unwrap(composition)).kind = "Err"
         /\ (MissionClasses(scaffold) = {} /\ merge_results[k] = "Ok") =>
              missions[k].sqm = scaffold
    /\ Completed("files") =>
         \A k \in DOMAIN missions :
            (merge_results[k] = "Err" /\ sqm_results[k]) =>
               \E f \in DOMAIN addon_files :
                  /\ addon_files[f].path = mission_path(missions[k])
                  /\ addon_files[f].content = [text_of |-> scaffold]

\* A build that finished although a merge failed, the un-merged target's
\* file handed over.
MergeFailureWitness ==
    /\ pc = "Done"
    /\ MissionClasses(scaffold) /= {}
    /\ \E k \in DOMAIN merge_results :
         /\ merge_results[k] = "Err"
         /\ sqm_results[k]
         /\ addon_files[1].content = [text_of |-> scaffold]

\* C10: in a build that reaches build_addon, the mission files added and
\* the manifest entries match the surviving targets whose to_sqm succeeded,
\* one each, in the order of the maps list: file k is
\* missions/<qualified_name>/mission.sqm, manifest entry k has the directory
\* of the same <qualified_name>, and config.cpp is added last.
ManifestMatchesFiles ==
    Completed("build_addon") =>
        LET settings == Unwrap(mission_settings)
            kept == Picked(missions, sqm_results)
            n == Len(addon_files)
            manifest == addon_files[n].content.rendered.missions
        IN  /\ n = Len(kept) + 1
            /\ addon_files[n].path = <<"config.cpp">>
            /\ Len(manifest) = Len(kept)
            /\ [k \in DOMAIN kept |-> kept[k].map_name]
                 = Picked(Picked(settings.maps, new_results), sqm_results)
            /\ \A k \in DOMAIN kept :
                 /\ addon_files[k].path =
                      <<"missions", "/">> \o mission_name(kept[k])
                          \o <<"/", "mission.sqm">>
                 /\ manifest[k].directory =
                      build_config.prefix \o <<"\\">> \o settings.addon_name
                          \o <<"\\", "missions", "\\">> \o mission_name(kept[k])

====
